---- MODULE Spec2Model ----
(***************************************************************************)
(* Model of orca_core/orca_core/hand_controller.py: the OrcaHandController *)
(* node (two subscriptions, one 50 Hz timer) run by rclpy.spin, and its    *)
(* teardown.  Angles are integers: radians are carried in milliradians,    *)
(* degrees in whole degrees, and the conversions round to nearest with     *)
(* pi = 355/113.  A Python dict is a function whose DOMAIN is its key set; *)
(* an optional value is a sequence of length 0 or 1.                       *)
(***************************************************************************)
EXTENDS Integers, Sequences, FiniteSets, TLC

VARIABLES
    state,                    \* position of main(): Idle, Spinning, ShuttingDown, Stopped
    connect_status,           \* outcome of OrcaHand(...) / hand.connect() in __init__
    hasHand,                  \* hasattr(self, 'hand')
    subscribed,               \* joint_subscription and wrist_subscription exist
    timer,                    \* the 50 Hz timer exists
    current_joint_positions,  \* self.current_joint_positions
    current_wrist_position,   \* self.current_wrist_position
    jrun,                     \* joint_state_callback is executing
    jmsg,                     \* pairs of zip(msg.name, msg.position) not yet visited
    jname,                    \* loop variable name: the external name visited last
    tpc,                      \* position inside send_all_joint_positions
    act_joint_states,         \* the local act_joint_states of the running tick
    hand_cmd,                 \* argument and outcome of the set_joint_pos call in flight
    lastWriter,               \* who made the most recent set_joint_pos call
    neutralWrites,            \* number of neutral commands handed to set_joint_pos
    act_pub,                  \* message published on /orca_hand/act_joint_states by this tick
    obs_pub,                  \* message published on /orca_hand/obs_joint_states by this tick
    real_joint_positions,     \* what get_joint_pos returned to this tick's sampler
    fb,                       \* outcome of publish_real_joint_states in this tick
    log,                      \* error logged by the running tick
    prevTick,                 \* how the previous tick ended
    lastNamed,                \* history: per joint, the value of the latest update naming it
    gBefore,                  \* history: stored finger map when the latest update began
    lastMulti,                \* history: the latest update carried two or more joints
    lastWristRaw,             \* history: degrees carried by the latest wrist update
    updatedSinceTick          \* history: an update was stored since the previous tick returned

vars == <<state, connect_status, hasHand, subscribed, timer,
          current_joint_positions, current_wrist_position, jrun, jmsg, jname,
          tpc, act_joint_states, hand_cmd, lastWriter, neutralWrites,
          act_pub, obs_pub, real_joint_positions, fb, log, prevTick,
          lastNamed, gBefore, lastMulti, lastWristRaw, updatedSinceTick>>

lifecycle == <<state, connect_status, hasHand, subscribed, timer>>
merged    == <<current_joint_positions, current_wrist_position>>
jointcb   == <<jrun, jmsg, jname>>
tickvars  == <<tpc, act_joint_states, act_pub, obs_pub, real_joint_positions, fb, log,
               prevTick>>
actuator  == <<hand_cmd, lastWriter, neutralWrites>>
history   == <<lastNamed, gBefore, lastMulti, lastWristRaw, updatedSinceTick>>

----------------------------------------------------------------------------
(* Bounds and input sets *)

MaxLen == 2

SeqUpTo(S, n) == UNION {[1..k -> S] : k \in 0..n}

\* external names a /joint_states message may carry: two mapped names, the
\* wrist name and a name that is not in the table
MsgNames == {"right_thumb_mcp", "right_index_mcp", "right_wrist", "left_thumb_mcp"}

\* positions of a /joint_states message, milliradians (10 and 200 degrees)
MsgPositions == {175, 3491}

\* data of a /gello/wrist_angle message, milliradians (-57, 10 and 30 degrees)
WristData == {-1000, 175, 524}

EmptyDict == [x \in {} |-> 0]

----------------------------------------------------------------------------
(* Configuration tables *)

joint_mapping ==
    ("right_thumb_mcp" :> "thumb_mcp")   @@ ("right_thumb_abd" :> "thumb_abd")   @@
    ("right_thumb_pip" :> "thumb_pip")   @@ ("right_thumb_dip" :> "thumb_dip")   @@
    ("right_index_mcp" :> "index_mcp")   @@ ("right_index_pip" :> "index_pip")   @@
    ("right_index_abd" :> "index_abd")   @@ ("right_middle_mcp" :> "middle_mcp") @@
    ("right_middle_pip" :> "middle_pip") @@ ("right_ring_mcp" :> "ring_mcp")     @@
    ("right_ring_pip" :> "ring_pip")     @@ ("right_ring_abd" :> "ring_abd")     @@
    ("right_pinky_mcp" :> "pinky_mcp")   @@ ("right_pinky_pip" :> "pinky_pip")   @@
    ("right_pinky_abd" :> "pinky_abd")

joint_roms ==
    ("thumb_mcp" :> <<-50, 50>>)   @@ ("thumb_abd" :> <<-20, 42>>)  @@
    ("thumb_pip" :> <<-12, 108>>)  @@ ("thumb_dip" :> <<-20, 112>>) @@
    ("index_mcp" :> <<-20, 95>>)   @@ ("index_pip" :> <<-20, 108>>) @@
    ("index_abd" :> <<-37, 37>>)   @@ ("middle_mcp" :> <<-20, 91>>) @@
    ("middle_pip" :> <<-20, 107>>) @@ ("ring_mcp" :> <<-20, 91>>)   @@
    ("ring_pip" :> <<-20, 107>>)   @@ ("ring_abd" :> <<-37, 37>>)   @@
    ("pinky_mcp" :> <<-20, 98>>)   @@ ("pinky_pip" :> <<-20, 108>>) @@
    ("pinky_abd" :> <<-37, 37>>)

wrist_rom == <<-24, 24>>

\* hand.joint_ids: the joints the actuator knows
joint_ids == {joint_mapping[n] : n \in DOMAIN joint_mapping} \cup {"wrist"}

\* results hand.get_joint_pos(as_list=False) may return: an empty dict, or a
\* dict whose entries are a position in degrees or None (the empty sequence)
FeedbackReads == {EmptyDict} \cup [{"thumb_mcp", "wrist"} -> {<<>>, <<0>>, <<10>>}]

----------------------------------------------------------------------------
(* Pure functions *)

RoundDiv(a, b) ==
    IF a >= 0 THEN (2 * a + b) \div (2 * b) ELSE -((2 * (-a) + b) \div (2 * b))

\* math.degrees on milliradians: r/1000 * 180/pi
Degrees(r) == RoundDiv(r * 180 * 113, 355 * 1000)

\* math.radians, result in milliradians: d * pi/180 * 1000
Radians(d) == RoundDiv(d * 355 * 1000, 180 * 113)

PyMin(a, b) == IF b < a THEN b ELSE a
PyMax(a, b) == IF b > a THEN b ELSE a

clamp_joint_value(joint_name, value) == value

clamp_wrist_value(value) == PyMax(wrist_rom[1], PyMin(wrist_rom[2], value))

\* zip(msg.name, msg.position): pairs up to the shorter length
Zip(names, positions) ==
    [i \in 1..PyMin(Len(names), Len(positions)) |-> <<names[i], positions[i]>>]

\* a snapshot that forgets the wrist entry
SnapshotNoWrist(cjp, cwp) == cjp

\* act_joint_states = current_joint_positions.copy(); act_joint_states['wrist'] = ...
Snapshot(cjp, cwp) == ("wrist" :> cwp) @@ cjp

Fingers(d) == [j \in DOMAIN d \ {"wrist"} |-> d[j]]

\* JointState message: names and, for each, math.radians of the degree value
ToRadians(d) == [j \in DOMAIN d |-> Radians(d[j])]

\* valid_joints filtered by truth value instead of "is not None": 0 is dropped
ValidJointsTruthy(real) ==
    [j \in {k \in DOMAIN real : real[k] # <<>> /\ real[k] # <<0>>} |-> real[j][1]]

\* valid_joints of publish_real_joint_states
ValidJoints(real) == [j \in {k \in DOMAIN real : real[k] # <<>>} |-> real[j][1]]

NoCmd == [cmd |-> EmptyDict, res |-> "none"]

\* {jid: 0 for jid in self.hand.joint_ids}
neutral == [jid \in joint_ids |-> 0]

----------------------------------------------------------------------------
(* History of the updates, stated on the message and not on the loop *)

\* indices of the pairs of a message that the callback accepts
AcceptedIdx(names, positions) ==
    {i \in 1..Len(Zip(names, positions)) :
        names[i] # "right_wrist" /\ names[i] \in DOMAIN joint_mapping}

AcceptedJoints(names, positions) ==
    {joint_mapping[names[i]] : i \in AcceptedIdx(names, positions)}

LatestIdx(names, positions, j) ==
    CHOOSE i \in AcceptedIdx(names, positions) :
        /\ joint_mapping[names[i]] = j
        /\ \A k \in AcceptedIdx(names, positions) : joint_mapping[names[k]] = j => k <= i

LatestNamed(old, names, positions) ==
    [j \in DOMAIN old \cup AcceptedJoints(names, positions) |->
        IF j \in AcceptedJoints(names, positions)
        THEN clamp_joint_value(j, Degrees(positions[LatestIdx(names, positions, j)]))
        ELSE old[j]]

----------------------------------------------------------------------------
(* Initial state: main() has not yet constructed the node *)

Init ==
    /\ state = "Idle"
    /\ connect_status = "none"
    /\ hasHand = FALSE
    /\ subscribed = FALSE
    /\ timer = FALSE
    /\ current_joint_positions = EmptyDict
    /\ current_wrist_position = 0
    /\ jrun = FALSE
    /\ jmsg = <<>>
    /\ jname = ""
    /\ tpc = "idle"
    /\ act_joint_states = EmptyDict
    /\ hand_cmd = NoCmd
    /\ lastWriter = "none"
    /\ neutralWrites = 0
    /\ act_pub = <<>>
    /\ obs_pub = <<>>
    /\ real_joint_positions = <<>>
    /\ fb = "none"
    /\ log = ""
    /\ prevTick = "none"
    /\ lastNamed = EmptyDict
    /\ gBefore = EmptyDict
    /\ lastMulti = FALSE
    /\ lastWristRaw = <<>>
    /\ updatedSinceTick = FALSE

----------------------------------------------------------------------------
(* main() and OrcaHandController.__init__ *)

\* __init__ without the early return after a failed connect
ConstructNoReturn(outcome) ==
    /\ state = "Idle"
    /\ connect_status' = outcome
    /\ hasHand' = (outcome # "ctor_raised")
    /\ subscribed' = (outcome \in {"ok", "failed"})
    /\ timer' = (outcome \in {"ok", "failed"})
    /\ state' = IF outcome \in {"ok", "failed"} THEN "Spinning" ELSE "ShuttingDown"
    /\ UNCHANGED <<merged, jointcb, tickvars, actuator, history>>

\* controller = OrcaHandController(); rclpy.spin(controller).
\* outcome: OrcaHand(...) raises, connect() raises, connect() reports
\* failure (the constructor returns early), or connect() reports success.
\* An exception leaves main(): the process goes down without spinning.
Construct(outcome) ==
    /\ state = "Idle"
    /\ connect_status' = outcome
    /\ hasHand' = (outcome # "ctor_raised")
    /\ subscribed' = (outcome = "ok")
    /\ timer' = (outcome = "ok")
    /\ state' = IF outcome \in {"ok", "failed"} THEN "Spinning" ELSE "ShuttingDown"
    /\ UNCHANGED <<merged, jointcb, tickvars, actuator, history>>

\* the pipeline is Running: the node spins and its timer exists
Running == state = "Spinning" /\ timer

\* an executor that runs callbacks concurrently
ExecutorReadyConcurrent == TRUE

\* rclpy.spin(controller) uses the single-threaded executor: a callback is
\* taken only when no other callback is executing
ExecutorReady == ~jrun /\ tpc = "idle"

\* external stop: spin ends between two callbacks, then destroy_node() and
\* rclpy.shutdown() (or the process unwinds): no entity fires any more
Stop ==
    /\ state = "Spinning"
    /\ ExecutorReady
    /\ state' = "ShuttingDown"
    /\ subscribed' = FALSE
    /\ timer' = FALSE
    /\ UNCHANGED <<connect_status, hasHand, merged, jointcb, tickvars, actuator, history>>

\* a teardown that a raising neutral write blocks: nothing is reported and
\* the process does not get past the finalizer
DelBlocked(res) ==
    /\ state = "ShuttingDown"
    /\ state' = IF hasHand /\ res = "raised" THEN "ShuttingDown" ELSE "Stopped"
    /\ IF hasHand
       THEN /\ hand_cmd' = [cmd |-> neutral, res |-> res]
            /\ lastWriter' = "del"
            /\ neutralWrites' = IF res = "raised" THEN neutralWrites ELSE neutralWrites + 1
       ELSE UNCHANGED actuator
    /\ UNCHANGED <<connect_status, hasHand, subscribed, timer, merged, jointcb,
                   tickvars, history>>

\* __del__ runs when the object is finalized.  It has no try: an exception
\* raised by set_joint_pos leaves __del__, where the interpreter reports it
\* on stderr ("Exception ignored in ...") and goes on
Del(res) ==
    /\ state = "ShuttingDown"
    /\ state' = "Stopped"
    /\ IF hasHand
       THEN /\ hand_cmd' = [cmd |-> neutral, res |-> res]
            /\ lastWriter' = "del"
            /\ neutralWrites' = neutralWrites + 1
            /\ log' = IF res = "raised" THEN "Exception ignored in __del__" ELSE log
       ELSE UNCHANGED <<actuator, log>>
    /\ UNCHANGED <<connect_status, hasHand, subscribed, timer, merged, jointcb,
                   tpc, act_joint_states, act_pub, obs_pub, real_joint_positions, fb,
                   prevTick, history>>

\* the interpreter exits without having finalized the object: __del__ is
\* not guaranteed to be called for objects alive at interpreter exit
ExitWithoutDel ==
    /\ state = "ShuttingDown"
    /\ state' = "Stopped"
    /\ UNCHANGED <<connect_status, hasHand, subscribed, timer, merged, jointcb,
                   tickvars, actuator, history>>

----------------------------------------------------------------------------
(* Producer callbacks *)

\* clamp_wrist_value without the clamp
wrist_angle_store_raw(data) == Degrees(data)

\* body of wrist_angle_callback: the value it stores
wrist_angle_store(data) == clamp_wrist_value(Degrees(data))

\* a wrist callback that sends the wrist position to the hand itself
wrist_angle_callback_direct(data) ==
    /\ state = "Spinning"
    /\ subscribed
    /\ ExecutorReady
    /\ current_wrist_position' = wrist_angle_store(data)
    /\ hand_cmd' = [cmd |-> ("wrist" :> wrist_angle_store(data)), res |-> "ok"]
    /\ lastWriter' = "wrist"
    /\ lastWristRaw' = <<Degrees(data)>>
    /\ updatedSinceTick' = TRUE
    /\ UNCHANGED <<lifecycle, current_joint_positions, jointcb, tickvars, neutralWrites,
                   lastNamed, gBefore, lastMulti>>

\* wrist_angle_callback: float(msg.data) of a Float32 does not raise
wrist_angle_callback(data) ==
    /\ state = "Spinning"
    /\ subscribed
    /\ ExecutorReady
    /\ current_wrist_position' = wrist_angle_store(data)
    /\ lastWristRaw' = <<Degrees(data)>>
    /\ updatedSinceTick' = TRUE
    /\ UNCHANGED <<lifecycle, current_joint_positions, jointcb, tickvars, actuator,
                   lastNamed, gBefore, lastMulti>>

\* the loop body with a lookup that falls back to the external name: a name
\* that is not in the table is stored under itself
JointLoopBodyStoreUnknown(cjp, name, position) ==
    IF name = "right_wrist" THEN cjp
    ELSE IF name \in DOMAIN joint_mapping
         THEN (joint_mapping[name] :>
                 clamp_joint_value(joint_mapping[name], Degrees(position))) @@ cjp
         ELSE (name :> clamp_joint_value(name, Degrees(position))) @@ cjp

\* the loop body with the dict update written the wrong way round: a key
\* already present keeps its old value
JointLoopBodyKeepOld(cjp, name, position) ==
    IF name = "right_wrist" THEN cjp
    ELSE IF name \in DOMAIN joint_mapping
         THEN cjp @@ (joint_mapping[name] :>
                        clamp_joint_value(joint_mapping[name], Degrees(position)))
         ELSE cjp

\* one iteration of the loop of joint_state_callback
JointLoopBody(cjp, name, position) ==
    IF name = "right_wrist" THEN cjp
    ELSE IF name \in DOMAIN joint_mapping
         THEN (joint_mapping[name] :>
                 clamp_joint_value(joint_mapping[name], Degrees(position))) @@ cjp
         ELSE cjp

\* the executor takes a /joint_states message and enters joint_state_callback
JointBegin(names, positions) ==
    /\ state = "Spinning"
    /\ subscribed
    /\ ExecutorReady
    /\ ~jrun
    /\ jrun' = TRUE
    /\ jmsg' = Zip(names, positions)
    /\ jname' = ""
    /\ lastNamed' = LatestNamed(lastNamed, names, positions)
    /\ gBefore' = current_joint_positions
    /\ lastMulti' = (Cardinality(AcceptedJoints(names, positions)) >= 2)
    /\ updatedSinceTick' = (updatedSinceTick \/ AcceptedJoints(names, positions) # {})
    /\ UNCHANGED <<lifecycle, merged, tickvars, actuator, lastWristRaw>>

\* an iteration that stores the position of right_wrist as the wrist command
JointStepStoresWrist ==
    /\ jrun
    /\ jmsg # <<>>
    /\ current_joint_positions' =
           JointLoopBody(current_joint_positions, Head(jmsg)[1], Head(jmsg)[2])
    /\ current_wrist_position' =
           IF Head(jmsg)[1] = "right_wrist"
           THEN clamp_wrist_value(Degrees(Head(jmsg)[2]))
           ELSE current_wrist_position
    /\ jmsg' = Tail(jmsg)
    /\ jname' = Head(jmsg)[1]
    /\ UNCHANGED <<lifecycle, jrun, tickvars, actuator, history>>

\* one iteration of the loop: the next pair of the zip is visited
JointStep ==
    /\ jrun
    /\ jmsg # <<>>
    /\ current_joint_positions' =
           JointLoopBody(current_joint_positions, Head(jmsg)[1], Head(jmsg)[2])
    /\ jmsg' = Tail(jmsg)
    /\ jname' = Head(jmsg)[1]
    /\ UNCHANGED <<lifecycle, current_wrist_position, jrun, tickvars, actuator, history>>

\* the loop is exhausted: the callback returns
JointEnd ==
    /\ jrun
    /\ jmsg = <<>>
    /\ jrun' = FALSE
    /\ jname' = ""
    /\ gBefore' = current_joint_positions
    /\ UNCHANGED <<lifecycle, merged, jmsg, tickvars, actuator,
                   lastNamed, lastMulti, lastWristRaw, updatedSinceTick>>

----------------------------------------------------------------------------
(* The dispatch tick: send_all_joint_positions and publish_real_joint_states *)

\* the snapshot taken without .copy(): act_joint_states is the stored dict
\* itself, so setting its wrist key writes into the stored map
TickSnapshotAliased ==
    /\ Running
    /\ ExecutorReady
    /\ tpc = "idle"
    /\ act_joint_states' = Snapshot(current_joint_positions, current_wrist_position)
    /\ current_joint_positions' = act_joint_states'
    /\ tpc' = "write"
    /\ UNCHANGED <<lifecycle, current_wrist_position, jointcb, actuator, act_pub, obs_pub,
                   real_joint_positions, fb, log, prevTick, history>>

\* the timer fires: the tick takes its snapshot
TickSnapshot ==
    /\ Running
    /\ ExecutorReady
    /\ tpc = "idle"
    /\ act_joint_states' = Snapshot(current_joint_positions, current_wrist_position)
    /\ tpc' = "write"
    /\ UNCHANGED <<lifecycle, merged, jointcb, actuator, act_pub, obs_pub,
                   real_joint_positions, fb, log, prevTick, history>>

\* self.hand.set_joint_pos(act_joint_states) returns
TickWriteOk ==
    /\ tpc = "write"
    /\ hand_cmd' = [cmd |-> act_joint_states, res |-> "ok"]
    /\ lastWriter' = "tick"
    /\ tpc' = "publish"
    /\ UNCHANGED <<lifecycle, merged, jointcb, neutralWrites, act_joint_states,
                   act_pub, obs_pub, real_joint_positions, fb, log, prevTick,
                   history>>

\* set_joint_pos raises and nothing catches it: the exception leaves spin
TickWriteRaisedUncaught ==
    /\ tpc = "write"
    /\ hand_cmd' = [cmd |-> act_joint_states, res |-> "raised"]
    /\ lastWriter' = "tick"
    /\ state' = "ShuttingDown"
    /\ timer' = FALSE
    /\ subscribed' = FALSE
    /\ tpc' = "return"
    /\ UNCHANGED <<connect_status, hasHand, merged, jointcb, neutralWrites,
                   act_joint_states, act_pub, obs_pub, real_joint_positions, fb, log, prevTick,
                   history>>

\* set_joint_pos raises: control jumps to the except clause of
\* send_all_joint_positions, which logs; the rest of the try body is skipped
TickWriteRaised ==
    /\ tpc = "write"
    /\ hand_cmd' = [cmd |-> act_joint_states, res |-> "raised"]
    /\ lastWriter' = "tick"
    /\ log' = "send_all_joint_positions error"
    /\ tpc' = "return"
    /\ UNCHANGED <<lifecycle, merged, jointcb, neutralWrites, act_joint_states,
                   act_pub, obs_pub, real_joint_positions, fb, prevTick, history>>

\* the tick returning after the publish, without calling the sampler
TickPublishSkipsSampler ==
    /\ tpc = "publish"
    /\ act_pub' = <<ToRadians(act_joint_states)>>
    /\ tpc' = "return"
    /\ UNCHANGED <<lifecycle, merged, jointcb, actuator, act_joint_states,
                   obs_pub, real_joint_positions, fb, log, prevTick, history>>

\* the publish from the stored finger map instead of the snapshot
TickPublishFromStored ==
    /\ tpc = "publish"
    /\ act_pub' = <<ToRadians(current_joint_positions)>>
    /\ tpc' = "feedback"
    /\ UNCHANGED <<lifecycle, merged, jointcb, actuator, act_joint_states,
                   obs_pub, real_joint_positions, fb, log, prevTick, history>>

\* the publish step skipped
TickPublishNothing ==
    /\ tpc = "publish"
    /\ tpc' = "feedback"
    /\ UNCHANGED <<lifecycle, merged, jointcb, actuator, act_joint_states,
                   act_pub, obs_pub, real_joint_positions, fb, log, prevTick,
                   history>>

\* self.joint_angles_publisher.publish(joint_state_msg)
TickPublish ==
    /\ tpc = "publish"
    /\ act_pub' = <<ToRadians(act_joint_states)>>
    /\ tpc' = "feedback"
    /\ UNCHANGED <<lifecycle, merged, jointcb, actuator, act_joint_states,
                   obs_pub, real_joint_positions, fb, log, prevTick, history>>

\* publish_real_joint_states, get_joint_pos returning real
FeedbackRead(real) ==
    /\ tpc = "feedback"
    /\ real_joint_positions' = <<real>>
    /\ obs_pub' = IF real # EmptyDict THEN <<ToRadians(ValidJoints(real))>> ELSE <<>>
    /\ fb' = "ok"
    /\ tpc' = "return"
    /\ UNCHANGED <<lifecycle, merged, jointcb, actuator, act_joint_states,
                   act_pub, log, prevTick, history>>

\* a sampler whose failure escapes and takes the node down
FeedbackRaisedUncaught ==
    /\ tpc = "feedback"
    /\ fb' = "error"
    /\ state' = "ShuttingDown"
    /\ timer' = FALSE
    /\ subscribed' = FALSE
    /\ tpc' = "return"
    /\ UNCHANGED <<connect_status, hasHand, merged, jointcb, actuator, act_joint_states,
                   act_pub, obs_pub, real_joint_positions, log, prevTick,
                   history>>

\* publish_real_joint_states, get_joint_pos or publish raising: its own
\* except clause logs and the function returns normally
FeedbackRaised ==
    /\ tpc = "feedback"
    /\ fb' = "error"
    /\ log' = "publish_real_joint_states error"
    /\ tpc' = "return"
    /\ UNCHANGED <<lifecycle, merged, jointcb, actuator, act_joint_states,
                   act_pub, obs_pub, real_joint_positions, prevTick, history>>

\* send_all_joint_positions returns: its locals and messages are gone
TickReturn ==
    /\ tpc = "return"
    /\ tpc' = "idle"
    /\ prevTick' = IF hand_cmd.res = "raised" THEN "write_error"
                   ELSE IF fb = "error" THEN "feedback_error" ELSE "ok"
    /\ act_joint_states' = EmptyDict
    /\ hand_cmd' = NoCmd
    /\ act_pub' = <<>>
    /\ obs_pub' = <<>>
    /\ real_joint_positions' = <<>>
    /\ fb' = "none"
    /\ log' = ""
    /\ updatedSinceTick' = FALSE
    /\ UNCHANGED <<lifecycle, merged, jointcb, lastWriter, neutralWrites,
                   lastNamed, gBefore, lastMulti, lastWristRaw>>

----------------------------------------------------------------------------

Next ==
    \/ \E outcome \in {"ctor_raised", "connect_raised", "failed", "ok"} : Construct(outcome)
    \/ Stop
    \/ \E res \in {"ok", "raised"} : Del(res)
    \/ ExitWithoutDel
    \/ \E data \in WristData : wrist_angle_callback(data)
    \/ \E names \in SeqUpTo(MsgNames, MaxLen), positions \in SeqUpTo(MsgPositions, MaxLen) :
          JointBegin(names, positions)
    \/ JointStep
    \/ JointEnd
    \/ TickSnapshot
    \/ TickWriteOk
    \/ TickWriteRaised
    \/ TickPublish
    \/ \E real \in FeedbackReads : FeedbackRead(real)
    \/ FeedbackRaised
    \/ TickReturn

Spec == Init /\ [][Next]_vars

----------------------------------------------------------------------------
(* Properties *)

InRange(j, v) == joint_roms[j][1] <= v /\ v <= joint_roms[j][2]

\* the command of a set_joint_pos call made by the running tick
TickWrote == tpc # "idle" /\ lastWriter = "tick" /\ hand_cmd.res # "none"

\* C1: every finger-joint value stored in current_joint_positions, and every
\* finger-joint value a dispatch tick hands to set_joint_pos, lies inside that
\* joint's range of motion [min_j, max_j].
C1_FingerValuesInRange ==
    /\ \A j \in DOMAIN current_joint_positions : InRange(j, current_joint_positions[j])
    /\ TickWrote => \A j \in DOMAIN Fingers(hand_cmd.cmd) : InRange(j, hand_cmd.cmd[j])

\* C2: the stored wrist command always lies in [-24, 24]; after a wrist update
\* carrying v degrees it equals max(-24, min(24, v)); and every snapshot and
\* every command written by a tick carries exactly the stored wrist value.
C2_WristClamped ==
    /\ -24 <= current_wrist_position /\ current_wrist_position <= 24
    /\ lastWristRaw # <<>> =>
          current_wrist_position =
             (IF lastWristRaw[1] > 24 THEN 24
              ELSE IF lastWristRaw[1] < -24 THEN -24 ELSE lastWristRaw[1])
    /\ tpc # "idle" => act_joint_states["wrist"] = current_wrist_position
    /\ TickWrote => hand_cmd.cmd["wrist"] = current_wrist_position

\* C2 witness: a wrist update of 30 degrees, and a tick writing wrist = 24.
C2_Witness ==
    /\ lastWristRaw = <<30>>
    /\ tpc = "publish"
    /\ hand_cmd.res = "ok"
    /\ hand_cmd.cmd["wrist"] = 24

\* C3: the snapshot of a tick holds, for each finger joint, the value of the
\* most recent update that named it, holds no finger joint that no update has
\* named, and holds the wrist entry besides.
C3_SnapshotHoldsLatestNamed ==
    tpc # "idle" =>
        /\ DOMAIN act_joint_states = DOMAIN lastNamed \cup {"wrist"}
        /\ \A j \in DOMAIN lastNamed : act_joint_states[j] = lastNamed[j]

\* C3 witness: thumb_mcp = 10 from one update, index_mcp from a later
\* single-joint update, no wrist update: the snapshot has exactly these and
\* wrist = 0.
C3_Witness ==
    /\ tpc = "write"
    /\ ~lastMulti
    /\ DOMAIN act_joint_states = {"thumb_mcp", "index_mcp", "wrist"}
    /\ act_joint_states["thumb_mcp"] = 10
    /\ act_joint_states["index_mcp"] = 200
    /\ act_joint_states["wrist"] = 0

\* C4: the finger part of a tick's snapshot is the stored map as it was
\* before the latest update message began or as it is after that whole message
\* was applied: never a partially applied message.
C4_SnapshotNeverTorn ==
    tpc # "idle" => Fingers(act_joint_states) \in {gBefore, lastNamed}

\* C4 witness: a snapshot taken after a two-joint update and a wrist update.
C4_Witness ==
    /\ tpc = "write"
    /\ lastMulti
    /\ lastWristRaw # <<>>
    /\ DOMAIN Fingers(act_joint_states) = {"thumb_mcp", "index_mcp"}

\* C5: every snapshot has a wrist entry, and it is 0 as long as no wrist
\* update was received.
C5_WristDefaultsToZero ==
    tpc # "idle" =>
        /\ "wrist" \in DOMAIN act_joint_states
        /\ lastWristRaw = <<>> => act_joint_states["wrist"] = 0

\* C5 witness: finger updates applied, no wrist update, snapshot has wrist = 0.
C5_Witness ==
    /\ tpc = "write"
    /\ lastWristRaw = <<>>
    /\ DOMAIN lastNamed = {"thumb_mcp", "index_mcp"}
    /\ act_joint_states["wrist"] = 0

\* C6: every write of a tick, failed or not, carries the merged state as it
\* is at that tick; a failed write leaves the pipeline Running; and after a
\* tick whose write failed the next tick can fire as soon as the executor is
\* free.
C6_WriteFailureContained ==
    /\ [][(tpc = "write" /\ tpc' # "write") =>
             /\ hand_cmd'.cmd = Snapshot(current_joint_positions, current_wrist_position)
             /\ Running']_vars
    /\ []((prevTick = "write_error" /\ state = "Spinning" /\ ExecutorReady)
             => ENABLED TickSnapshot)

\* C6 witness: the previous tick's write failed, updates arrived since, and
\* this tick's write succeeded with the current merged state.
C6_Witness ==
    /\ prevTick = "write_error"
    /\ updatedSinceTick
    /\ tpc = "publish"
    /\ hand_cmd.res = "ok"
    /\ hand_cmd.cmd = Snapshot(current_joint_positions, current_wrist_position)

\* C7: after a connect that reported failure the pipeline is never Running:
\* no timer, no subscription, no callback running, no tick fired or firing,
\* no write by a tick.
C7_ConnectFailureNeverRuns ==
    connect_status = "failed" =>
        /\ ~timer /\ ~subscribed /\ ~Running
        /\ tpc = "idle" /\ prevTick = "none" /\ ~jrun
        /\ lastWriter # "tick"

\* C7 witness: connect reported failure and main() is spinning the node.
C7_Witness == connect_status = "failed" /\ state = "Spinning"

\* C8: once a pipeline that was Running is Stopped, exactly one neutral
\* command has been written and it is the last write the actuator received.
C8_NeutralWrittenBeforeStopped ==
    (state = "Stopped" /\ connect_status = "ok") =>
        /\ neutralWrites = 1
        /\ lastWriter = "del"
        /\ hand_cmd.cmd = neutral

\* C9: a failing feedback sampler leaves the tick's write and commanded-angle
\* publication in place, leaves the merged state alone and leaves the pipeline
\* Running; after such a tick the next tick can fire.
C9_FeedbackFailureContained ==
    /\ [][(tpc = "feedback" /\ fb' = "error") =>
             /\ UNCHANGED <<current_joint_positions, current_wrist_position>>
             /\ UNCHANGED <<hand_cmd, act_pub>>
             /\ hand_cmd.res = "ok"
             /\ act_pub = <<ToRadians(act_joint_states)>>
             /\ Running']_vars
    /\ []((prevTick = "feedback_error" /\ state = "Spinning" /\ ExecutorReady)
             => ENABLED TickSnapshot)

\* C9 witness: the previous tick's sampler failed and this tick has written
\* and published.
C9_Witness ==
    /\ prevTick = "feedback_error"
    /\ tpc = "feedback"
    /\ hand_cmd.res = "ok"
    /\ act_pub # <<>>

\* C10 as stated: a tick that reaches its end has published the
\* commanded-angle record of its snapshot, also when its write failed.
C10_PublishedEveryTick ==
    tpc = "return" => act_pub = <<ToRadians(act_joint_states)>>

\* C10 amended: a tick whose write succeeded has published, when it reaches
\* its end, the commanded-angle record of its snapshot; a tick whose write
\* failed has published nothing.
C10_PublishedWhenWriteSucceeds ==
    tpc = "return" =>
        IF hand_cmd.res = "ok"
        THEN /\ Len(act_pub) = 1
             /\ DOMAIN act_pub[1] = DOMAIN act_joint_states
             /\ \A j \in DOMAIN act_joint_states :
                    act_pub[1][j] = Radians(act_joint_states[j])
        ELSE act_pub = <<>>

\* C10 witness: a tick with finger joints in its snapshot wrote and published.
C10_Witness ==
    /\ tpc = "return"
    /\ hand_cmd.res = "ok"
    /\ act_pub # <<>>
    /\ DOMAIN Fingers(act_joint_states) # {}


\* C11: when the sampler publishes, the feedback record names exactly the
\* joints whose read position is not None (a position of 0 included), each
\* with the conversion of the position read.
C11_FeedbackNamesAvailableJoints ==
    (tpc = "return" /\ fb = "ok" /\ real_joint_positions # <<>>
        /\ real_joint_positions[1] # EmptyDict) =>
        /\ Len(obs_pub) = 1
        /\ DOMAIN obs_pub[1] \subseteq DOMAIN real_joint_positions[1]
        /\ \A j \in DOMAIN real_joint_positions[1] :
              (j \in DOMAIN obs_pub[1]) <=> (real_joint_positions[1][j] # <<>>)
        /\ \A j \in DOMAIN obs_pub[1] :
              obs_pub[1][j] = Radians(real_joint_positions[1][j][1])

\* C11 witness: thumb_mcp read as None and wrist read as 0: the record names
\* wrist only.
C11_Witness ==
    /\ tpc = "return"
    /\ real_joint_positions = <<("thumb_mcp" :> <<>>) @@ ("wrist" :> <<0>>)>>
    /\ Len(obs_pub) = 1
    /\ DOMAIN obs_pub[1] = {"wrist"}


\* the canonical finger-joint identifiers: the values of the translation table
FingerIds == {joint_mapping[n] : n \in DOMAIN joint_mapping}

\* C12: the stored finger map has only canonical finger-joint keys and a
\* snapshot only those plus wrist; a message with a name outside the table
\* is processed to its end without error, and at the end of its loop the
\* stored map holds every accepted joint of that message.
C12_UnknownNamesDropped ==
    /\ DOMAIN current_joint_positions \subseteq FingerIds
    /\ tpc # "idle" => DOMAIN act_joint_states \subseteq FingerIds \cup {"wrist"}
    /\ jrun => state = "Spinning"
    /\ (jrun /\ jmsg = <<>>) => current_joint_positions = lastNamed

\* C12 witness: the loop has just dropped left_thumb_mcp, the last name of a
\* message whose earlier known name was stored.
C12_Witness ==
    /\ jrun
    /\ jmsg = <<>>
    /\ jname = "left_thumb_mcp"
    /\ current_joint_positions # gBefore
    /\ DOMAIN current_joint_positions \subseteq FingerIds


\* C13 as stated: a tick that reaches its end has written its snapshot and
\* has triggered the feedback sampler, also when the write failed.
C13_SamplerEveryTick ==
    tpc = "return" => (hand_cmd.res # "none" /\ fb # "none")

\* C13 amended: every tick takes a snapshot and hands it to the actuator
\* write; the sampler runs only after a write that succeeded, and a tick
\* reaches its end with the sampler run exactly when its write succeeded.
C13_SamplerAfterSuccessfulWrite ==
    /\ tpc \in {"publish", "feedback", "return"} =>
          (hand_cmd.res # "none" /\ hand_cmd.cmd = act_joint_states)
    /\ fb # "none" => (hand_cmd.res = "ok" /\ tpc = "return")
    /\ tpc = "return" => (fb # "none" <=> hand_cmd.res = "ok")

\* C13 witness: a tick wrote its snapshot and its sampler read the actuator.
C13_Witness ==
    /\ tpc = "return"
    /\ hand_cmd.res = "ok"
    /\ hand_cmd.cmd = act_joint_states
    /\ fb = "ok"
    /\ real_joint_positions # <<>>

\* C14: the record a tick publishes names the joints of the command it wrote
\* and carries, for each, the conversion of the degree value written.
C14_PublishMatchesWrite ==
    (tpc \in {"feedback", "return"} /\ act_pub # <<>>) =>
        /\ hand_cmd.res = "ok"
        /\ DOMAIN act_pub[1] = DOMAIN hand_cmd.cmd
        /\ \A j \in DOMAIN hand_cmd.cmd : act_pub[1][j] = Radians(hand_cmd.cmd[j])

\* C14 witness: a tick wrote thumb_mcp = 10 and wrist = 24 and published
\* their conversions.
C14_Witness ==
    /\ tpc = "feedback"
    /\ DOMAIN hand_cmd.cmd = {"thumb_mcp", "wrist"}
    /\ hand_cmd.cmd["thumb_mcp"] = 10
    /\ hand_cmd.cmd["wrist"] = 24
    /\ act_pub = <<("thumb_mcp" :> 175) @@ ("wrist" :> 419)>>


\* C15: no step of a dispatch tick or of its feedback sampler changes the
\* stored finger map or the stored wrist value; the finger map changes only in
\* an iteration of joint_state_callback, the wrist value only in a step taken
\* while no tick and no finger callback is executing; and the stored finger
\* map never has a wrist key.
C15_TickLeavesMergedStateAlone ==
    /\ [][(tpc' # tpc) =>
             UNCHANGED <<current_joint_positions, current_wrist_position>>]_vars
    /\ [][(current_joint_positions' # current_joint_positions) =>
             (jrun /\ jmsg # <<>> /\ jmsg' = Tail(jmsg))]_vars
    /\ [][(current_wrist_position' # current_wrist_position) =>
             (tpc = "idle" /\ tpc' = "idle" /\ ~jrun /\ ~jrun'
              /\ lastWristRaw' # <<>>)]_vars
    /\ []("wrist" \notin DOMAIN current_joint_positions)

\* C15 witness: after a complete tick with its sampler, a tick whose write
\* failed is at its end, and the merged state holds finger and wrist updates.
C15_Witness ==
    /\ prevTick = "ok"
    /\ tpc = "return"
    /\ hand_cmd.res = "raised"
    /\ current_joint_positions # EmptyDict
    /\ current_joint_positions = lastNamed
    /\ lastWristRaw # <<>>
    /\ "wrist" \notin DOMAIN current_joint_positions


\* a step of one of the two producer callbacks
ProducerStep ==
    \/ <<jrun, jmsg, jname>>' # <<jrun, jmsg, jname>>
    \/ lastWristRaw' # lastWristRaw
    \/ current_wrist_position' # current_wrist_position
    \/ (updatedSinceTick' /\ ~updatedSinceTick)

\* C16: a step of a producer callback makes no set_joint_pos call and no
\* get_joint_pos call; while the node spins, a set_joint_pos call is made only
\* by the write step of a tick and a get_joint_pos result is received only by
\* the sampler step of a tick.
C16_OnlyTickTouchesActuator ==
    /\ [][ProducerStep =>
             UNCHANGED <<hand_cmd, lastWriter, neutralWrites, real_joint_positions>>]_vars
    /\ [][(state = "Spinning" /\ hand_cmd' # hand_cmd /\ hand_cmd'.res # "none") =>
             (tpc = "write" /\ lastWriter' = "tick")]_vars
    /\ [][(real_joint_positions' # real_joint_positions /\ real_joint_positions' # <<>>) =>
             tpc = "feedback"]_vars
    /\ [](state = "Spinning" => lastWriter \in {"none", "tick"})

\* C16 witness: finger and wrist updates have been stored and the actuator
\* has not been called yet.
C16_Witness ==
    /\ state = "Spinning"
    /\ ~jrun
    /\ updatedSinceTick
    /\ lastNamed # EmptyDict
    /\ current_joint_positions = lastNamed
    /\ lastWristRaw # <<>>
    /\ lastWriter = "none"
    /\ hand_cmd = NoCmd
    /\ prevTick = "none"


C18_ProducersIndependent ==
    /\ [][(<<jrun, jmsg, jname>>' # <<jrun, jmsg, jname>>) =>
             current_wrist_position' = current_wrist_position]_vars
    /\ [][(jrun /\ jmsg # <<>> /\ jmsg' = Tail(jmsg) /\ Head(jmsg)[1] = "right_wrist") =>
             UNCHANGED <<current_joint_positions, current_wrist_position>>]_vars
    /\ [][(lastWristRaw' # lastWristRaw
             \/ current_wrist_position' # current_wrist_position) =>
             current_joint_positions' = current_joint_positions]_vars

\* C18 witness: after a wrist update of -57 degrees (stored as -24) and
\* finger updates, the loop has just visited right_wrist and the stored wrist
\* value is still -24.
C18_Witness ==
    /\ jrun
    /\ jname = "right_wrist"
    /\ lastWristRaw = <<-57>>
    /\ current_wrist_position = -24
    /\ current_joint_positions # EmptyDict
    /\ "wrist" \notin DOMAIN current_joint_positions


\* C19: in an execution whose connect reported failure, set_joint_pos is
\* never called, at teardown included.
C19_NoWriteAfterFailedConnect ==
    connect_status = "failed" =>
        /\ lastWriter = "none"
        /\ neutralWrites = 0
        /\ hand_cmd = NoCmd

====
